---- MODULE Spec2Model ----
(***************************************************************************)
(* Transformation orchestrator of the data lake                            *)
(* (src/src/transformations/orchestrator.py, models.py, __main__.py).      *)
(*                                                                         *)
(* A qualified name "layer/name" is the pair <<layer, name>>.  A           *)
(* dependency text is the record [layer, name]; layer = "" is a text       *)
(* without "/".  A Python dict is the sequence of its entries in insertion *)
(* order.                                                                  *)
(***************************************************************************)
EXTENDS Integers, Sequences, FiniteSets, TLC

VARIABLES
    fs,                 \* the SQL root directory tree read by discovery
    modules,            \* self.modules: dict qualified name -> SQLModule
    discovery_complete, \* self._discovery_complete
    pc,                 \* "idle", "layer" (about to enter execute_layer), "exec" (in the loop of _execute_modules),
                        \* "main" (main not yet started), "exited" (the process is over)
    call,               \* the public call in progress, or the last one
    layers_left,        \* layers the call has still to hand to execute_layer
    pending,            \* modules the loop of _execute_modules has still to run
    log,                \* what the call has done so far: resolve, validate, preview, connect, execute
    console,            \* lines the call has printed
    error,              \* the exception the call raised, NoError if none
    cli,                \* the command line of main, the database file it finds, its exit code
    epc                 \* EPCAPIClient._fetch_pages: its locals, the requests sent and the pages received

vars == <<fs, modules, discovery_complete, pc, call, layers_left, pending, log, console, error,
          cli, epc>>

----------------------------------------------------------------------------
(* Bounds *)

MaxModules == 3     \* SQL files under the SQL root
MaxMeta    == 2     \* modules with an entry in a _schema.yaml
MaxValModules  == 2 \* modules handed to the source validator on its own
MaxValSources  == 2 \* entries of one source_files list handed to the validator on its own
MaxDiskModules == 2 \* SQL files of a tree that changes between calls
MaxDiskMeta    == 1 \* modules with an entry in a _schema.yaml of such a tree
MaxArgs        == 2 \* layer words on the command line
MaxSortModules == 3 \* modules of a mapping handed to the resolver on its own
MaxPages       == 3 \* pages one call of _fetch_pages asks the server for
MaxPageRecords == 2 \* records in one page of the server
MaxLimit       == 3 \* max_records_per_batch

----------------------------------------------------------------------------
(* Configuration and value spaces *)

Layers == <<"bronze", "silver", "gold">>

NamePool == <<"a", "b", "c", "d", "e">>

SourcePool == <<"f1", "f2", "f3", "f4">>

Range(s) == {s[i] : i \in 1..Len(s)}

LayerSet == Range(Layers)

Min(a, b) == IF a < b THEN a ELSE b

RECURSIVE SeqsUpTo(_, _)
SeqsUpTo(S, n) ==
    IF n = 0 THEN {<<>>}
    ELSE LET shorter == SeqsUpTo(S, n - 1)
         IN  shorter \cup {Append(s, x) : s \in shorter, x \in S}

RECURSIVE Concat(_)
Concat(ss) == IF ss = <<>> THEN <<>> ELSE Head(ss) \o Concat(Tail(ss))

Msg(text, names, nums) == [text |-> text, names |-> names, nums |-> nums]

NoMsg == Msg("", <<>>, <<>>)

NoError == [type |-> "none", msg |-> NoMsg, cause |-> ""]

Raise(type, msg, cause) == [type |-> type, msg |-> msg, cause |-> cause]

Event(ev, layer, mods) == [ev |-> ev, layer |-> layer, mods |-> mods]

\* no paginated fetch in progress
NoFetch == [max_records_per_batch |-> 0, search_after |-> "", page_num |-> 0,
            csv_pages |-> <<>>, total_rows |-> 0, requests |-> <<>>, responses |-> <<>>,
            all_records |-> 0]

\* no command line: the orchestrator is used as a library
NoCli == [layers |-> <<>>, db |-> "present", exit |-> <<>>]

----------------------------------------------------------------------------
(* models.py *)

\* description "" stands for None; file_path is sql_root/layer/name.sql
SQLModule(name, layer, depends_on, description, enabled, requires_vpn, source_files) ==
    [name |-> name, layer |-> layer, depends_on |-> depends_on, description |-> description,
     enabled |-> enabled, requires_vpn |-> requires_vpn, source_files |-> source_files]

get_qualified_name(m) == <<m.layer, m.name>>

Qualify(m, dep) == IF dep.layer # "" THEN <<dep.layer, dep.name>> ELSE <<m.layer, dep.name>>

get_dependencies(m) == [i \in 1..Len(m.depends_on) |-> Qualify(m, m.depends_on[i])]

Entry(key, mod) == [key |-> key, mod |-> mod]

DictKeys(d) == [i \in 1..Len(d) |-> d[i].key]

DictKeySet(d) == {d[i].key : i \in 1..Len(d)}

DictGet(d, k) == d[CHOOSE i \in 1..Len(d) : d[i].key = k].mod

----------------------------------------------------------------------------
(* _sort_by_dependencies *)

\* the pairs <<dep, qualified_name>> in the order lines 208-216 meet them
EdgesOfMutant(d, e) ==
    LET deps == get_dependencies(e.mod)
        kept == SelectSeq(deps, LAMBDA dep : dep \in DictKeySet(d))
    IN  [i \in 1..Len(kept) |-> <<e.key, kept[i]>>]

\* without the test of line 214
EdgesOfUnfilteredMutant(d, e) ==
    LET deps == get_dependencies(e.mod)
    IN  [i \in 1..Len(deps) |-> <<deps[i], e.key>>]

EdgesOf(d, e) ==
    LET deps == get_dependencies(e.mod)
        kept == SelectSeq(deps, LAMBDA dep : dep \in DictKeySet(d))
    IN  [i \in 1..Len(kept) |-> <<kept[i], e.key>>]

EdgeList(d) == Concat([i \in 1..Len(d) |-> EdgesOf(d, d[i])])

BuildGraph(d) ==
    [k \in DictKeySet(d) |->
        LET out == SelectSeq(EdgeList(d), LAMBDA ed : ed[1] = k)
        IN  [i \in 1..Len(out) |-> out[i][2]]]

BuildInDegree(d) ==
    [k \in DictKeySet(d) |-> Len(SelectSeq(EdgeList(d), LAMBDA ed : ed[2] = k))]

\* every module is enqueued, whatever its in-degree
InitialQueueMutant(d, in_degree) == DictKeys(d)

\* line 219
InitialQueue(d, in_degree) == SelectSeq(DictKeys(d), LAMBDA k : in_degree[k] = 0)

\* the for loop of lines 226-229 over graph[current]
RECURSIVE VisitNeighbors(_, _, _)
VisitNeighbors(nbrs, in_degree, queue) ==
    IF nbrs = <<>> THEN [in_degree |-> in_degree, queue |-> queue]
    ELSE LET n   == Head(nbrs)
             deg == [in_degree EXCEPT ![n] = @ - 1]
         IN  VisitNeighbors(Tail(nbrs), deg,
                            IF deg[n] = 0 THEN Append(queue, n) ELSE queue)

\* queue.pop() in place of queue.pop(0)
PopIndexMutant(queue) == Len(queue)

\* line 223
PopIndex(queue) == 1

RemoveAt(s, i) == SubSeq(s, 1, i - 1) \o SubSeq(s, i + 1, Len(s))

\* the while loop of lines 222-229
RECURSIVE KahnLoop(_, _, _, _)
KahnLoop(queue, in_degree, sorted_names, graph) ==
    IF queue = <<>> THEN sorted_names
    ELSE LET current == queue[PopIndex(queue)]
             after   == VisitNeighbors(graph[current], in_degree,
                                       RemoveAt(queue, PopIndex(queue)))
         IN  KahnLoop(after.queue, after.in_degree,
                      Append(sorted_names, current), graph)

SortedNames(d) ==
    LET in_degree == BuildInDegree(d)
    IN  KahnLoop(InitialQueue(d, in_degree), in_degree, <<>>, BuildGraph(d))

CycleCheckMutant(d, sorted_names) == FALSE

CycleCheck(d, sorted_names) == Len(sorted_names) # Len(d)

CircularError == Raise("RuntimeError", Msg("Circular dependency detected in modules", <<>>, <<>>), "")

\* [error, value]: the exception raised, or NoError and the list returned
_sort_by_dependencies(d) ==
    LET sorted_names == SortedNames(d)
    IN  IF CycleCheck(d, sorted_names)
        THEN [error |-> CircularError, value |-> <<>>]
        ELSE [error |-> NoError,
              value |-> [i \in 1..Len(sorted_names) |-> DictGet(d, sorted_names[i])]]

----------------------------------------------------------------------------
(* validate_sources *)

MissingOfMutant(m, present) ==
    LET miss == SelectSeq(m.source_files, LAMBDA f : f \notin present)
    IN  [i \in 1..Min(1, Len(miss)) |-> <<m.name, miss[i]>>]

\* the pairs lines 251-254 append for one module
MissingOf(m, present) ==
    LET miss == SelectSeq(m.source_files, LAMBDA f : f \notin present)
    IN  [i \in 1..Len(miss) |-> <<m.name, miss[i]>>]

MissingFiles(mods, present) == Concat([i \in 1..Len(mods) |-> MissingOf(mods[i], present)])

MissingLine(pair) == Msg("  - module_name: file_path", pair, <<>>)

MissingCountMsg(missing_files) == Msg("source file(s) missing", <<>>, <<Len(missing_files)>>)

\* present: the declared paths that exist on disk when the validator runs
validate_sources(mods, present) ==
    LET missing_files == MissingFiles(mods, present)
    IN  IF missing_files # <<>>
        THEN [error   |-> Raise("RuntimeError", MissingCountMsg(missing_files), ""),
              console |-> <<Msg("Validation failed: Missing source files", <<>>, <<>>)>>
                          \o [i \in 1..Len(missing_files) |-> MissingLine(missing_files[i])]]
        ELSE [error |-> NoError, console |-> <<>>]

----------------------------------------------------------------------------
(* discover_modules, _load_schema_metadata *)

DefaultMeta ==
    [depends_on |-> <<>>, description |-> "", enabled |-> TRUE, requires_vpn |-> FALSE,
     source_files |-> <<>>]

\* schema.state: "missing" (no _schema.yaml), "yaml_error" (it does not parse),
\* "ok" (a mapping from module names to metadata), "not_a_mapping" (YAML that
\* parses to a non-empty list: safe_load returns it and nothing is raised here)
_load_schema_metadata(tree, layer) ==
    LET schema == tree.dirs[layer].schema
    IN  IF schema.state = "ok" THEN schema.entries ELSE <<>>

MetaGet(schema_metadata, module_name) ==
    IF module_name \in DOMAIN schema_metadata THEN schema_metadata[module_name] ELSE DefaultMeta

DiscoverFile(layer, module_name, schema_metadata) ==
    LET metadata == MetaGet(schema_metadata, module_name)
    IN  Entry(<<layer, module_name>>,
              SQLModule(module_name, layer, metadata.depends_on, metadata.description,
                        metadata.enabled, metadata.requires_vpn, metadata.source_files))

\* a break in place of the continue of line 71
DiscoverLayerMutant(tree, layer) ==
    IF \E i, j \in 1..Len(Layers) : i <= j /\ Layers[j] = layer /\ ~tree.dirs[Layers[i]].exists
    THEN <<>>
    ELSE LET schema_metadata == _load_schema_metadata(tree, layer)
             files == tree.dirs[layer].files
         IN  [i \in 1..Len(files) |-> DiscoverFile(layer, files[i], schema_metadata)]

DiscoverLayer(tree, layer) ==
    IF ~tree.dirs[layer].exists THEN <<>>
    ELSE LET schema_metadata == _load_schema_metadata(tree, layer)
             files == tree.dirs[layer].files
         IN  [i \in 1..Len(files) |-> DiscoverFile(layer, files[i], schema_metadata)]

RootMissingError == Raise("FileNotFoundError", Msg("SQL root directory not found", <<>>, <<>>), "")

RootIsMissingMutant(tree) == FALSE

\* line 59
RootIsMissing(tree) == ~tree.root_exists

\* line 82 for the first SQL file of a layer whose _schema.yaml parsed to a
\* list: schema_metadata.get is not there
MetadataGetRaises(tree, layer) ==
    /\ tree.dirs[layer].exists
    /\ tree.dirs[layer].files # <<>>
    /\ tree.dirs[layer].schema.state = "not_a_mapping"

NoGetError ==
    Raise("AttributeError", Msg("'list' object has no attribute 'get'", <<>>, <<>>), "")

\* the exception discover_modules raises on the tree, NoError if none
DiscoveryError(tree) ==
    IF RootIsMissing(tree) THEN RootMissingError
    ELSE IF \E layer \in LayerSet : MetadataGetRaises(tree, layer) THEN NoGetError
    ELSE NoError

\* [error, modules]: the exception raised, or the mapping built by lines 63-95
discover_modules(tree) ==
    IF DiscoveryError(tree) # NoError
    THEN [error |-> DiscoveryError(tree), modules |-> <<>>]
    ELSE [error |-> NoError,
          modules |-> Concat([i \in 1..Len(Layers) |-> DiscoverLayer(tree, Layers[i])])]

\* the new entries are added to the old ones that were not found again
CacheAfterDiscoveryMutant(old, found) ==
    SelectSeq(old, LAMBDA e : e.key \notin DictKeySet(found)) \o found

\* line 98: self.modules = modules
CacheAfterDiscovery(old, found) == found

NeedsDiscoveryMutant(complete) == TRUE

\* lines 145 and 183: if not self._discovery_complete
NeedsDiscovery(complete) == ~complete

----------------------------------------------------------------------------
(* execute_layer: everything up to the dispatch to the executor *)

\* the source paths found on disk, as the log keeps them
PresentSeq(present) == SelectSeq(SourcePool, LAMBDA f : f \in present)

QNames(mods) == [i \in 1..Len(mods) |-> get_qualified_name(mods[i])]

LayerFilterMutant(e, layer) == e.mod.layer = layer

\* lines 153-157
LayerFilter(e, layer) == e.mod.layer = layer /\ e.mod.enabled

LayerModules(d, layer) == SelectSeq(d, LAMBDA e : LayerFilter(e, layer))

ValidationAppliesMutant(validate, layer) == validate

\* line 167
ValidationApplies(validate, layer) == validate /\ layer = "bronze"

InvalidLayerError(layer) == Raise("ValueError", Msg("Invalid layer", <<layer>>, <<>>), "")

LayerIsValidMutant(layer) == TRUE

\* line 148
LayerIsValid(layer) == layer \in LayerSet

DispatchPreviewMutant(dry_run) == ~dry_run

\* line 171
DispatchPreview(dry_run) == dry_run

\* lines 273-279 for the module at position i: its qualified name, then its depends_on if any
PreviewLines(m, i) ==
    <<Msg("i. qualified_name", get_qualified_name(m), <<i>>)>>
    \o (IF m.depends_on # <<>>
        THEN <<Msg("Depends on", [j \in 1..Len(m.depends_on) |-> m.depends_on[j].name], <<>>)>>
        ELSE <<>>)

\* the lines _preview_execution prints; it does nothing else
_preview_execution(mods) ==
    <<Msg("Execution Plan (n modules)", <<>>, <<Len(mods)>>)>>
    \o Concat([i \in 1..Len(mods) |-> PreviewLines(mods[i], i)])

\* the resolver is given every module of the layer that discovery found
ResolverInputMutant(d, layer, layer_modules) ==
    SelectSeq(d, LAMBDA e : e.mod.layer = layer)

\* line 164: the resolver is given the modules that passed the filter of
\* lines 153-157, and nothing else of self.modules
ResolverInput(d, layer, layer_modules) == layer_modules

\* the source files are checked before the modules are ordered
FirstErrorMutant(sortError, checkError) ==
    IF checkError # NoError THEN checkError ELSE sortError

\* lines 164-168: _sort_by_dependencies is called first, and what it raises
\* leaves execute_layer before validate_sources is called
FirstError(sortError, checkError) ==
    IF sortError # NoError THEN sortError ELSE checkError

EmptyLayerPlanMutant ==
    [error |-> Raise("RuntimeError", Msg("No modules found for layer", <<>>, <<>>), ""),
     log |-> <<>>, console |-> <<>>, run |-> <<>>]

\* lines 159-161: a warning is logged and the call returns
EmptyLayerPlan == [error |-> NoError, log |-> <<>>, console |-> <<>>, run |-> <<>>]

\* Lines 148-174 for the mapping d.  [error, log, console, run]: run is the
\* list handed to _execute_modules, empty when the call returns or raises
\* before it.
ExecuteLayerPlan(d, layer, dry_run, validate, present) ==
    LET layer_modules == LayerModules(d, layer)
        sorted        == _sort_by_dependencies(ResolverInput(d, layer, layer_modules))
        sorted_modules == sorted.value
        resolved      == <<Event("resolve", layer, DictKeys(layer_modules))>>
        ordered       == <<Event("sorted", layer, QNames(sorted_modules))>>
        unsorted      == [i \in 1..Len(layer_modules) |-> layer_modules[i].mod]
        checked       == validate_sources(IF sorted.error = NoError THEN sorted_modules
                                                                     ELSE unsorted, present)
        checkError    == IF ValidationApplies(validate, layer) THEN checked.error ELSE NoError
        validated     == IF ValidationApplies(validate, layer)
                         THEN <<Event("validate", layer, QNames(sorted_modules)),
                                Event("disk", layer, PresentSeq(present))>>
                         ELSE <<>>
    IN  IF ~LayerIsValid(layer)
        THEN [error |-> InvalidLayerError(layer), log |-> <<>>, console |-> <<>>, run |-> <<>>]
        ELSE IF layer_modules = <<>>
        THEN EmptyLayerPlan
        ELSE IF sorted.error # NoError
        THEN [error |-> FirstError(sorted.error, checkError), log |-> resolved,
              console |-> <<>>, run |-> <<>>]
        ELSE IF ValidationApplies(validate, layer) /\ checked.error # NoError
        THEN [error |-> checked.error, log |-> resolved \o ordered \o validated,
              console |-> checked.console, run |-> <<>>]
        ELSE IF DispatchPreview(dry_run)
        THEN [error |-> NoError,
              log |-> resolved \o ordered \o validated
                      \o <<Event("preview", layer, QNames(sorted_modules))>>,
              console |-> _preview_execution(sorted_modules),
              run |-> <<>>]
        ELSE [error |-> NoError, log |-> resolved \o ordered \o validated, console |-> <<>>,
              run |-> sorted_modules]

----------------------------------------------------------------------------
(* _execute_sql_file *)

Outcomes == {"ok", "sql_file_missing", "db_missing", "load_error", "sql_error"}

\* the connection is opened before the two files are looked for
SqlFileEventsConnectFirstMutant(layer, qn, outcome) ==
    LET ev(name) == Event(name, layer, <<qn>>)
    IN  CASE outcome = "ok"               -> <<ev("connect"), ev("load"), ev("execute"), ev("close")>>
          [] outcome = "sql_file_missing" -> <<ev("connect"), ev("close")>>
          [] outcome = "db_missing"       -> <<ev("connect"), ev("close")>>
          [] outcome = "load_error"       -> <<ev("connect"), ev("close")>>
          [] outcome = "sql_error"        -> <<ev("connect"), ev("load"), ev("execute_error"), ev("close")>>

\* a connection that stays open when a statement on it raises
SqlFileEventsMutant(layer, qn, outcome) ==
    LET ev(name) == Event(name, layer, <<qn>>)
    IN  CASE outcome = "ok"               -> <<ev("connect"), ev("load"), ev("execute"), ev("close")>>
          [] outcome = "sql_file_missing" -> <<>>
          [] outcome = "db_missing"       -> <<>>
          [] outcome = "load_error"       -> <<ev("connect")>>
          [] outcome = "sql_error"        -> <<ev("connect"), ev("load"), ev("execute_error")>>

\* what one call of _execute_sql_file does to the database, in order
SqlFileEvents(layer, qn, outcome) ==
    LET ev(name) == Event(name, layer, <<qn>>)
    IN  CASE outcome = "ok"               -> <<ev("connect"), ev("load"), ev("execute"), ev("close")>>
          [] outcome = "sql_file_missing" -> <<>>
          [] outcome = "db_missing"       -> <<>>
          [] outcome = "load_error"       -> <<ev("connect"), ev("close")>>
          [] outcome = "sql_error"        -> <<ev("connect"), ev("load"), ev("execute_error"), ev("close")>>

SqlFileCause(outcome) ==
    CASE outcome = "ok"               -> ""
      [] outcome = "sql_file_missing" -> "FileNotFoundError: SQL file not found"
      [] outcome = "db_missing"       -> "FileNotFoundError: Database not found"
      [] outcome = "load_error"       -> "duckdb.Error"
      [] outcome = "sql_error"        -> "duckdb.Error"

ModuleRaisesMutant(outcome) == FALSE

\* lines 305-314: any exception of _execute_sql_file is raised again as RuntimeError
ModuleRaises(outcome) == outcome # "ok"

ModuleFailedErrorMutant(m, outcome) ==
    Raise("RuntimeError", Msg("Module execution failed", <<m.name>>, <<>>),
          SqlFileCause(outcome))

ModuleFailedError(m, outcome) ==
    Raise("RuntimeError", Msg("Module execution failed", get_qualified_name(m), <<>>),
          SqlFileCause(outcome))

----------------------------------------------------------------------------
(* The file tree discovery reads *)

Dep(layer, name) == [layer |-> layer, name |-> name]

\* depends_on lists: the first or the second name of the same layer, the
\* qualified name of the first bronze module, or the first two names together
DependsOnLists ==
    {<<Dep("", NamePool[1])>>, <<Dep("", NamePool[2])>>, <<Dep("bronze", NamePool[1])>>,
     <<Dep("", NamePool[1]), Dep("", NamePool[2])>>}

\* _schema.yaml entries: each sets one key to a value that is not the default
Metas ==
    {[DefaultMeta EXCEPT !.depends_on = deps] : deps \in DependsOnLists}
    \cup {[DefaultMeta EXCEPT !.enabled = FALSE],
          [DefaultMeta EXCEPT !.source_files = <<SourcePool[1]>>]}

\* SQL files per layer: at most MaxModules, no layer with more files than the one before it
Counts == {c \in [LayerSet -> 0..MaxModules] :
              /\ c["bronze"] + c["silver"] + c["gold"] <= MaxModules
              /\ c["bronze"] >= c["silver"]
              /\ c["silver"] >= c["gold"]}

FilesOf(c, layer) == [i \in 1..c[layer] |-> NamePool[i]]

FileKeys(c) == {k \in LayerSet \X Range(NamePool) :
                   \E i \in 1..c[k[1]] : NamePool[i] = k[2]}

\* the tree with c[layer] SQL files per layer and the _schema.yaml entries meta
Tree(c, meta) ==
    [root_exists |-> TRUE,
     dirs |-> [l \in LayerSet |->
        LET named == {k[2] : k \in {k \in DOMAIN meta : k[1] = l}}
        IN  [exists |-> c[l] > 0,
             files  |-> FilesOf(c, l),
             schema |-> [state   |-> IF named = {} THEN "missing" ELSE "ok",
                         entries |-> [n \in named |-> meta[<<l, n>>]]]]]]

\* the SQL root directory is not there
NoTree ==
    [root_exists |-> FALSE,
     dirs |-> [l \in LayerSet |->
        [exists |-> FALSE, files |-> <<>>, schema |-> [state |-> "missing", entries |-> <<>>]]]]

Trees == {NoTree} \cup {Tree(c, meta) : c \in Counts, meta \in {<<>>}} \cup
         UNION {UNION {{Tree(c, meta) : meta \in [S -> Metas]} :
                        S \in {S \in SUBSET FileKeys(c) : S # {} /\ Cardinality(S) <= MaxMeta}} :
                c \in Counts}

NoCall == [op |-> "none", layer |-> "", dry_run |-> FALSE, validate |-> FALSE]

Init ==
    /\ fs \in Trees
    /\ modules = <<>>
    /\ discovery_complete = FALSE
    /\ pc = "idle"
    /\ call = NoCall
    /\ layers_left = <<>>
    /\ pending = <<>>
    /\ log = <<>>
    /\ console = <<>>
    /\ error = NoError
    /\ cli = NoCli
    /\ epc = NoFetch

----------------------------------------------------------------------------
(* The calls of the public interface and the steps of a live run *)

Call(op, layer, dry_run, validate) ==
    [op |-> op, layer |-> layer, dry_run |-> dry_run, validate |-> validate]

\* the layer names a caller passes: the configured ones and one that is not
LayerArgs == LayerSet \cup {"invalid_layer"}

\* the paths of declared source files that exist on disk
PresentSets == SUBSET {SourcePool[1]}

LayersAfterRaiseMutant(layers) == Tail(layers)

\* lines 186-188, 164-174: nothing catches an exception, so no layer is left to the call
LayersAfterRaise(layers) == <<>>

\* the call raises e while it handles layer (layer "" before the first)
Raised(e, layer, newLog, newConsole) ==
    /\ error' = e
    /\ log' = Append(newLog, Event("raise", layer, <<>>))
    /\ console' = newConsole
    /\ layers_left' = LayersAfterRaise(layers_left)
    /\ pending' = <<>>
    /\ pc' = IF LayersAfterRaise(layers_left) = <<>> THEN "idle" ELSE "layer"

\* execute_layer returns: execute_all goes on with the next layer, if any
Returned(newLog, newConsole) ==
    /\ error' = error
    /\ log' = newLog
    /\ console' = newConsole
    /\ layers_left' = Tail(layers_left)
    /\ pending' = <<>>
    /\ pc' = IF Tail(layers_left) = <<>> THEN "idle" ELSE "layer"

\* an explicit discover_modules()
CallDiscover ==
    /\ pc = "idle"
    /\ call' = Call("discover_modules", "", FALSE, FALSE)
    /\ LET found == discover_modules(fs)
       IN  IF found.error # NoError
           THEN /\ error' = found.error
                /\ log' = <<Event("raise", "", <<>>)>>
                /\ UNCHANGED <<modules, discovery_complete>>
           ELSE /\ modules' = CacheAfterDiscovery(modules, found.modules)
                /\ discovery_complete' = TRUE
                /\ error' = NoError
                /\ log' = <<>>
    /\ console' = <<>>
    /\ layers_left' = <<>>
    /\ pending' = <<>>
    /\ UNCHANGED <<fs, pc, cli, epc>>

\* execute_layer(layer, dry_run=..., validate=...) is called
CallExecuteLayer(layer, dry_run, validate) ==
    /\ pc = "idle"
    /\ call' = Call("execute_layer", layer, dry_run, validate)
    /\ pc' = "layer"
    /\ layers_left' = <<layer>>
    /\ pending' = <<>>
    /\ log' = <<>>
    /\ console' = <<>>
    /\ error' = NoError
    /\ UNCHANGED <<fs, modules, discovery_complete, cli, epc>>

\* every layer is resolved before the first one is executed
EagerResolutionMutant(d) ==
    IF \E i \in 1..Len(Layers) :
          _sort_by_dependencies(LayerModules(d, Layers[i])).error # NoError
    THEN CircularError
    ELSE NoError

\* lines 183-188: between discovery and the loop execute_all resolves nothing
\* itself; the resolver is only called from execute_layer
EagerResolution(d) == NoError

\* execute_all(dry_run=..., validate=...) is called: lines 183-186
CallExecuteAll(dry_run, validate) ==
    /\ pc = "idle"
    /\ call' = Call("execute_all", "", dry_run, validate)
    /\ LET found == discover_modules(fs)
           d     == IF NeedsDiscovery(discovery_complete)
                    THEN CacheAfterDiscovery(modules, found.modules) ELSE modules
       IN  IF NeedsDiscovery(discovery_complete) /\ found.error # NoError
           THEN /\ error' = found.error
                /\ log' = <<Event("raise", "", <<>>)>>
                /\ layers_left' = <<>>
                /\ UNCHANGED <<modules, discovery_complete, pc>>
           ELSE IF EagerResolution(d) # NoError
           THEN /\ error' = EagerResolution(d)
                /\ log' = <<Event("raise", "", <<>>)>>
                /\ layers_left' = <<>>
                /\ modules' = d
                /\ discovery_complete' = TRUE
                /\ UNCHANGED pc
           ELSE /\ modules' = d
                /\ discovery_complete' = TRUE
                /\ pc' = "layer"
                /\ layers_left' = Layers
                /\ log' = <<>>
                /\ error' = NoError
    /\ pending' = <<>>
    /\ console' = <<>>
    /\ UNCHANGED <<fs, cli, epc>>

\* execute_layer runs for the next layer, up to its dispatch to the executor
EnterLayer ==
    /\ pc = "layer"
    /\ LET layer == Head(layers_left)
           found == discover_modules(fs)
       IN  IF NeedsDiscovery(discovery_complete) /\ found.error # NoError
           THEN /\ Raised(found.error, layer, log, console)
                /\ UNCHANGED <<modules, discovery_complete>>
           ELSE LET d == IF NeedsDiscovery(discovery_complete)
                         THEN CacheAfterDiscovery(modules, found.modules) ELSE modules
                IN  /\ modules' = d
                    /\ discovery_complete' = TRUE
                    /\ \E present \in PresentSets :
                         LET plan == ExecuteLayerPlan(d, layer, call.dry_run, call.validate, present)
                         IN  IF plan.error # NoError
                             THEN Raised(plan.error, layer, log \o plan.log, console \o plan.console)
                             ELSE IF plan.run = <<>>
                             THEN Returned(log \o plan.log, console \o plan.console)
                             ELSE /\ pending' = plan.run
                                  /\ pc' = "exec"
                                  /\ log' = log \o plan.log
                                  /\ console' = console \o plan.console
                                  /\ UNCHANGED <<layers_left, error>>
    /\ UNCHANGED <<fs, call, cli, epc>>

\* one iteration of the loop of _execute_modules (lines 299-314), and line 316 after the last
ExecModule ==
    /\ pc = "exec"
    /\ LET module == Head(pending)
           qn     == get_qualified_name(module)
           layer  == Head(layers_left)
       IN  \E outcome \in Outcomes :
             LET done == Append(log, Event("attempt", layer, <<qn>>))
                         \o SqlFileEvents(layer, qn, outcome)
             IN  IF ModuleRaises(outcome)
                 THEN Raised(ModuleFailedError(module, outcome), layer, done,
                             console \o <<Msg("FAILED: qualified_name", qn, <<>>),
                                          Msg("Error: e", <<SqlFileCause(outcome)>>, <<>>)>>)
                 ELSE IF Tail(pending) # <<>>
                 THEN /\ pending' = Tail(pending)
                      /\ log' = done
                      /\ UNCHANGED <<pc, layers_left, console, error>>
                 ELSE Returned(done, Append(console,
                          Msg("SUCCESS: Executed n modules", <<>>,
                              <<Len(SelectSeq(done, LAMBDA e : e.ev = "attempt" /\ e.layer = layer))>>)))
    /\ UNCHANGED <<fs, modules, discovery_complete, call, cli, epc>>

Next ==
    \/ CallDiscover
    \/ \E layer \in LayerArgs, dry_run \in BOOLEAN, validate \in BOOLEAN :
          CallExecuteLayer(layer, dry_run, validate)
    \/ \E dry_run \in BOOLEAN, validate \in BOOLEAN : CallExecuteAll(dry_run, validate)
    \/ EnterLayer
    \/ ExecModule

Spec == Init /\ [][Next]_vars

----------------------------------------------------------------------------
(* The source validator on its own: validate_sources(modules) for a list    *)
(* of modules and a disk, as the unit tests call it.                        *)

ValSources == {SourcePool[1], SourcePool[2]}

ValModule(i, source_files) ==
    SQLModule(NamePool[i], "bronze", <<>>, "", TRUE, FALSE, source_files)

ValLists ==
    UNION {{[i \in 1..n |-> ValModule(i, src[i])] :
              src \in [1..n -> SeqsUpTo(ValSources, MaxValSources)]} : n \in 0..MaxValModules}

InitValidate ==
    /\ fs = NoTree
    /\ modules = <<>>
    /\ discovery_complete = FALSE
    /\ pc = "validate_input"
    /\ call = NoCall
    /\ layers_left = <<>>
    /\ pending \in ValLists
    /\ log = <<>>
    /\ console = <<>>
    /\ error = NoError
    /\ cli = NoCli
    /\ epc = NoFetch

\* validate_sources(pending) with the paths in present on disk
CallValidateSources ==
    /\ pc = "validate_input"
    /\ call' = Call("validate_sources", "", FALSE, FALSE)
    /\ \E present \in SUBSET ValSources :
         LET checked == validate_sources(pending, present)
         IN  /\ error' = checked.error
             /\ console' = checked.console
             /\ log' = <<Event("disk", "", PresentSeq(present))>>
                       \o (IF checked.error # NoError THEN <<Event("raise", "", <<>>)>> ELSE <<>>)
    /\ pc' = "idle"
    /\ UNCHANGED <<fs, modules, discovery_complete, layers_left, pending, cli, epc>>

NextValidate == CallValidateSources

SpecValidate == InitValidate /\ [][NextValidate]_vars

----------------------------------------------------------------------------
(* Properties *)

LogIdx == 1..Len(log)

LayerIdx(layer) == CHOOSE i \in 1..Len(Layers) : Layers[i] = layer

DatabaseEvents == {"connect", "load", "execute", "execute_error", "close"}

\* the qualified names of the events ev of one layer, in the order of the log
KeysOf(ev, layer) ==
    LET sel == SelectSeq(log, LAMBDA e : e.ev = ev /\ e.layer = layer)
    IN  [i \in 1..Len(sel) |-> sel[i].mods[1]]

\* the qualified names a module declares in depends_on
DeclaredDeps(m) ==
    {IF t.layer = "" THEN <<m.layer, t.name>> ELSE <<t.layer, t.name>> :
        t \in Range(m.depends_on)}

\* the dependency graph among the modules named in keys has a cycle:
\* no ranking puts every module above all its dependencies in keys
HasCycle(keys) ==
    ~ \E rank \in [keys -> 1..Cardinality(keys)] :
         \A k \in keys : \A dep \in DeclaredDeps(DictGet(modules, k)) \cap keys :
            rank[dep] < rank[k]

PosIn(d, k) == CHOOSE i \in 1..Len(d) : d[i].key = k

\* C1: every order the resolver returns places each module after each of its
\* dependencies that is in the resolved set, and in a live run a module's SQL
\* is attempted only after the SQL of each such dependency has been executed.
DependenciesFirst ==
    /\ \A i \in LogIdx : log[i].ev = "sorted" =>
          LET order == log[i].mods
          IN  \A p \in 1..Len(order) :
                 \A dep \in DeclaredDeps(DictGet(modules, order[p])) \cap Range(order) :
                    \E q \in 1..(p - 1) : order[q] = dep
    /\ \A i \in LogIdx : log[i].ev = "attempt" =>
          \A s \in LogIdx : log[s].ev = "sorted" /\ log[s].layer = log[i].layer =>
             \A dep \in DeclaredDeps(DictGet(modules, log[i].mods[1])) \cap Range(log[s].mods) :
                \E j \in 1..(i - 1) : log[j].ev = "execute" /\ log[j].mods = <<dep>>

\* a module discovered before its dependency has been executed after it
DependenciesFirstWitness ==
    \E i \in LogIdx :
       /\ log[i].ev = "execute"
       /\ \E s \in LogIdx :
            /\ log[s].ev = "sorted" /\ log[s].layer = log[i].layer
            /\ \E dep \in DeclaredDeps(DictGet(modules, log[i].mods[1])) \cap Range(log[s].mods) :
                  PosIn(modules, log[i].mods[1]) < PosIn(modules, dep)

\* C2: execute_all handles the layers in the configured order, and attempts a
\* module only when every enabled module of every earlier layer has been
\* executed successfully.
LayersInOrder ==
    call.op = "execute_all" =>
       /\ \A i, j \in LogIdx :
             i < j /\ log[i].layer # "" /\ log[j].layer # "" =>
                LayerIdx(log[i].layer) <= LayerIdx(log[j].layer)
       /\ \A i \in LogIdx : log[i].ev = "attempt" =>
             \A m \in 1..Len(modules) :
                (modules[m].mod.enabled
                    /\ LayerIdx(modules[m].mod.layer) < LayerIdx(log[i].layer)) =>
                   \E j \in 1..(i - 1) : log[j].ev = "execute" /\ log[j].mods = <<modules[m].key>>

\* execute_all attempts a silver module after two bronze modules
LayersInOrderWitness ==
    /\ call.op = "execute_all"
    /\ \E i \in LogIdx : log[i].ev = "attempt" /\ log[i].layer = "silver"
    /\ Cardinality({m \in 1..Len(modules) :
                       modules[m].mod.enabled /\ modules[m].mod.layer = "bronze"}) >= 2

LastSorted == CHOOSE s \in LogIdx : log[s].ev = "sorted" /\ \A t \in LogIdx : log[t].ev = "sorted" => t <= s

\* C3: when a live run fails at the k-th module of the resolved order, the
\* modules before it were each attempted and executed once, the k-th was
\* attempted once, none after it was attempted, the run is over, and the error
\* carries the qualified name of the k-th module.
FailFast ==
    error.msg.text = "Module execution failed" =>
       LET order == log[LastSorted].mods
           layer == log[LastSorted].layer
       IN  /\ pc = "idle"
           /\ log[Len(log)].ev = "raise"
           /\ \E k \in 1..Len(order) :
                 /\ order[k] = error.msg.names
                 /\ KeysOf("attempt", layer) = SubSeq(order, 1, k)
                 /\ KeysOf("execute", layer) = SubSeq(order, 1, k - 1)

\* module 2 of 3 failed
FailFastWitness ==
    /\ error.msg.text = "Module execution failed"
    /\ Len(log[LastSorted].mods) = 3
    /\ log[LastSorted].mods[2] = error.msg.names

\* C4: in execute_all nothing follows a raise: it is the last thing the call
\* does, the call is over with the error, and no layer is left to it.
FailureAbortsRun ==
    call.op = "execute_all" =>
       /\ \A i \in LogIdx : log[i].ev = "raise" =>
             /\ i = Len(log)
             /\ pc = "idle"
             /\ layers_left = <<>>
             /\ pending = <<>>
             /\ error # NoError
       /\ error # NoError => log # <<>> /\ log[Len(log)].ev = "raise"

\* execute_all stopped at bronze on missing source files, with an enabled module in a later layer
FailureAbortsRunWitness ==
    /\ call.op = "execute_all"
    /\ error.msg.text = "source file(s) missing"
    /\ \E m \in 1..Len(modules) : modules[m].mod.enabled /\ modules[m].mod.layer # "bronze"

\* C5: when the modules handed to the resolver have a dependency cycle, the
\* cycle error is raised at once: it ends the call, and no module of the
\* layer is attempted and nothing is done to the database for it.
CycleRaisesBeforeExecution ==
    \A i \in LogIdx : (log[i].ev = "resolve" /\ HasCycle(Range(log[i].mods))) =>
       /\ Len(log) = i + 1
       /\ log[i + 1].ev = "raise"
       /\ error = CircularError
       /\ pc = "idle"
       /\ \A j \in LogIdx : log[j].layer = log[i].layer =>
             log[j].ev \notin DatabaseEvents \cup {"attempt", "sorted", "preview"}
       /\ call.op = "execute_layer" =>
             \A j \in LogIdx : log[j].ev \notin DatabaseEvents \cup {"attempt"}

\* two modules that depend on each other
CycleRaisesBeforeExecutionWitness ==
    /\ error = CircularError
    /\ \E i \in LogIdx : log[i].ev = "resolve" /\ Len(log[i].mods) >= 2
                         /\ HasCycle(Range(log[i].mods))

\* C6: a dry run never attempts a module, opens no connection and executes no SQL.
DryRunTouchesNoDatabase ==
    call.dry_run => \A i \in LogIdx : log[i].ev \notin DatabaseEvents \cup {"attempt"}

\* a dry run with validate has previewed two modules
DryRunTouchesNoDatabaseWitness ==
    /\ call.dry_run
    /\ call.validate
    /\ pc = "idle"
    /\ \E i \in LogIdx : log[i].ev = "preview" /\ Len(log[i].mods) >= 2

\* the modules of the tree whose _schema.yaml entry says enabled: false
DisabledKeys(tree) ==
    {k \in LayerSet \X Range(NamePool) :
        /\ k[2] \in Range(tree.dirs[k[1]].files)
        /\ tree.dirs[k[1]].schema.state = "ok"
        /\ k[2] \in DOMAIN tree.dirs[k[1]].schema.entries
        /\ ~tree.dirs[k[1]].schema.entries[k[2]].enabled}

\* C8: once discovery is complete every disabled module is a key of the
\* mapping, and no disabled module is among the modules a call resolves,
\* orders, validates, previews or executes.
DisabledDiscoveredNotRun ==
    discovery_complete =>
       /\ DisabledKeys(fs) \subseteq DictKeySet(modules)
       /\ \A k \in DisabledKeys(fs) : ~DictGet(modules, k).enabled
       /\ \A i \in LogIdx : Range(log[i].mods) \cap DisabledKeys(fs) = {}

\* a live run has executed the enabled module of a layer that has a disabled one
DisabledDiscoveredNotRunWitness ==
    /\ pc = "idle"
    /\ \E i \in LogIdx : log[i].ev = "execute"
                         /\ \E k \in DisabledKeys(fs) : k[1] = log[i].layer

InvalidLayerCall == call.op = "execute_layer" /\ call.layer \notin LayerSet

MissingIdx(mods, present) ==
    {ij \in (1..Len(mods)) \X (1..MaxValSources + 1) :
        /\ ij[2] <= Len(mods[ij[1]].source_files)
        /\ mods[ij[1]].source_files[ij[2]] \notin present}

PairAt(mods, ij) == <<mods[ij[1]].name, mods[ij[1]].source_files[ij[2]]>>

DiskOf(e) == Range(e.mods)

ValidatorDone == call.op = "validate_sources" /\ pc = "idle"

----------------------------------------------------------------------------
(* Source validation inside execute_layer, empty layers, discovery on demand *)

\* the layers with an event ev in the log
LayersWith(ev) == {log[i].layer : i \in {i \in LogIdx : log[i].ev = ev}}

\* C11: execute_layer runs the source validator on the resolved modules of a
\* layer exactly when validate is true and the layer is "bronze"; for any
\* other layer, and whenever validate is false, no source file is looked up,
\* no call fails on missing source files, and the resolved modules go straight
\* to the preview or to the executor.
ValidatorOnlyForBronze ==
    /\ \A l \in LayersWith("sorted") :
          (l \in LayersWith("validate")) <=> (call.validate /\ l = "bronze")
    /\ LayersWith("disk") = LayersWith("validate")
    /\ error.msg.text = "source file(s) missing" =>
          call.validate /\ log[Len(log)].layer = "bronze"
    /\ \A i \in LogIdx :
          (log[i].ev = "sorted" /\ ~(call.validate /\ log[i].layer = "bronze")) =>
             /\ pc = "idle" => i < Len(log)
             /\ i < Len(log) => log[i + 1].ev = (IF call.dry_run THEN "preview" ELSE "attempt")

\* with validate on, a silver module that declares a source file was executed
\* and nothing was validated for silver
ValidatorOnlyForBronzeWitness ==
    /\ call.validate
    /\ \E i \in LogIdx :
          /\ log[i].ev = "execute"
          /\ log[i].layer = "silver"
          /\ DictGet(modules, log[i].mods[1]).source_files # <<>>
    /\ "silver" \notin LayersWith("validate")

\* the layer has an enabled module in the cached mapping
HasEnabled(layer) ==
    \E m \in 1..Len(modules) : modules[m].mod.layer = layer /\ modules[m].mod.enabled

----------------------------------------------------------------------------
(* Discovery against a tree that changes between calls.  The calls are dry  *)
(* runs without validation: lines 47-125, 145-146 and 183-184 read neither  *)
(* flag.                                                                     *)

\* _schema.yaml entries, one for each key discover_modules reads
DiskMetas ==
    {[DefaultMeta EXCEPT !.depends_on = <<Dep("", NamePool[2])>>],
     [DefaultMeta EXCEPT !.description = "text"],
     [DefaultMeta EXCEPT !.enabled = FALSE],
     [DefaultMeta EXCEPT !.requires_vpn = TRUE],
     [DefaultMeta EXCEPT !.source_files = <<SourcePool[1]>>]}

\* what a _schema.yaml without usable entries can be
UnusableStates == {"missing", "yaml_error", "not_a_mapping"}

DiskCounts == {c \in [LayerSet -> 0..MaxDiskModules] :
                  /\ c["bronze"] + c["silver"] + c["gold"] <= MaxDiskModules
                  /\ c["bronze"] >= c["silver"]
                  /\ c["silver"] >= c["gold"]}

\* the tree with c[layer] SQL files per layer, the _schema.yaml entries meta,
\* and the _schema.yaml of state[layer] in a layer with files and no entry
DiskTree(c, meta, state) ==
    [root_exists |-> TRUE,
     dirs |-> [l \in LayerSet |->
        LET named == {k[2] : k \in {k \in DOMAIN meta : k[1] = l}}
        IN  [exists |-> c[l] > 0,
             files  |-> FilesOf(c, l),
             schema |-> [state   |-> IF named # {} THEN "ok"
                                     ELSE IF l \in DOMAIN state THEN state[l] ELSE "missing",
                         entries |-> [n \in named |-> meta[<<l, n>>]]]]]]

\* the layers with files and no entry
Unnamed(c, S) == {l \in LayerSet : c[l] > 0 /\ \A k \in S : k[1] # l}

DiskTrees ==
    {NoTree} \cup
    UNION {UNION {UNION {{DiskTree(c, meta, state) : state \in [Unnamed(c, S) -> UnusableStates]} :
                          meta \in [S -> DiskMetas]} :
                   S \in {S \in SUBSET FileKeys(c) : Cardinality(S) <= MaxDiskMeta}} :
           c \in DiskCounts}

InitDisk ==
    /\ fs \in DiskTrees
    /\ modules = <<>>
    /\ discovery_complete = FALSE
    /\ pc = "idle"
    /\ call = NoCall
    /\ layers_left = <<>>
    /\ pending = <<>>
    /\ log = <<>>
    /\ console = <<>>
    /\ error = NoError
    /\ cli = NoCli
    /\ epc = NoFetch

\* between two calls, after the tree was scanned, something is removed from it
TreeChanges(tree) ==
    /\ pc = "idle"
    /\ discovery_complete
    /\ fs' = tree
    /\ call' = NoCall
    /\ log' = <<>>
    /\ console' = <<>>
    /\ error' = NoError
    /\ UNCHANGED <<modules, discovery_complete, pc, layers_left, pending, cli, epc>>

\* the SQL root directory is removed
RemoveRoot ==
    /\ fs.root_exists
    /\ TreeChanges(NoTree)

\* a layer directory is removed with all it holds
RemoveLayerDir(layer) ==
    /\ fs.dirs[layer].exists
    /\ TreeChanges([fs EXCEPT !.dirs[layer] = NoTree.dirs[layer]])

NextDisk ==
    \/ CallDiscover
    \/ \E layer \in LayerArgs : CallExecuteLayer(layer, TRUE, FALSE)
    \/ CallExecuteAll(TRUE, FALSE)
    \/ EnterLayer
    \/ RemoveRoot
    \/ \E layer \in LayerSet : RemoveLayerDir(layer)

SpecDisk == InitDisk /\ [][NextDisk]_vars

\* the qualified names of the SQL files in the tree
TreeKeys(tree) ==
    {k \in LayerSet \X Range(NamePool) :
        tree.dirs[k[1]].exists /\ k[2] \in Range(tree.dirs[k[1]].files)}

ExecuteOps == {"execute_layer", "execute_all"}

\* the step of an execute_layer or execute_all call that reaches line 145 or
\* 183 first
ReachesDiscoveryCheck ==
    \/ pc = "idle" /\ call'.op = "execute_all"
    \/ pc = "layer" /\ call.op = "execute_layer"

DiscoverDone == call.op = "discover_modules" /\ pc = "idle"

\* C14: after a successful discover_modules the cached mapping is the scan of
\* the tree as it is now, one entry per SQL file under its qualified name
\* layer/name, and discovery is complete; nothing cached by an earlier
\* discovery is left in it unless the scan found it again.
DiscoveryReplacesCache ==
    (DiscoverDone /\ error = NoError) =>
       /\ discovery_complete
       /\ DictKeySet(modules) = TreeKeys(fs)
       /\ Len(modules) = Cardinality(TreeKeys(fs))
       /\ \A i \in 1..Len(modules) : modules[i].key = <<modules[i].mod.layer, modules[i].mod.name>>

\* discover_modules succeeded on a tree that has lost its bronze directory
\* since it was scanned and still has a silver module
DiscoveryReplacesCacheWitness ==
    /\ DiscoverDone
    /\ error = NoError
    /\ ~fs.dirs["bronze"].exists
    /\ \E i \in 1..Len(modules) : modules[i].mod.layer = "silver"

\* C15: discover_modules called while the SQL root directory does not exist
\* raises the SQL-root-not-found error and leaves the cached mapping and the
\* discovery-complete flag as they were.
RootMissingLeavesCache ==
    [][(pc = "idle" /\ call'.op = "discover_modules" /\ ~fs.root_exists) =>
          /\ error' = RootMissingError
          /\ modules' = modules
          /\ discovery_complete' = discovery_complete]_vars

\* discover_modules failed on a removed SQL root and the mapping of the
\* earlier discovery is still cached
RootMissingLeavesCacheWitness ==
    /\ DiscoverDone
    /\ error = RootMissingError
    /\ discovery_complete
    /\ modules # <<>>

MissingLayers(tree) == {l \in LayerSet : ~tree.dirs[l].exists}

\* C16: a layer directory that does not exist is never why discover_modules
\* fails (it fails only when the SQL root is missing or a _schema.yaml of a
\* layer with SQL files is not a mapping), and a successful discovery has an
\* entry for every SQL file of every layer directory that exists and no entry
\* for a layer whose directory is missing.
MissingLayerSkipped ==
    DiscoverDone =>
       /\ error # NoError =>
             \/ ~fs.root_exists
             \/ \E l \in LayerSet \ MissingLayers(fs) :
                   fs.dirs[l].files # <<>> /\ fs.dirs[l].schema.state = "not_a_mapping"
       /\ error = NoError =>
             /\ \A l \in MissingLayers(fs) : \A i \in 1..Len(modules) : modules[i].key[1] # l
             /\ \A l \in LayerSet \ MissingLayers(fs) :
                   \A n \in Range(fs.dirs[l].files) : <<l, n>> \in DictKeySet(modules)

\* with two layer directories missing, discover_modules returned the two
\* modules of the third
MissingLayerSkippedWitness ==
    /\ DiscoverDone
    /\ error = NoError
    /\ Cardinality(MissingLayers(fs)) = 2
    /\ Len(modules) = 2

\* the SQL file n of layer l has no usable _schema.yaml entry
NoMetadataFor(tree, l, n) ==
    \/ tree.dirs[l].schema.state # "ok"
    \/ n \notin DOMAIN tree.dirs[l].schema.entries

\* C17: whatever the _schema.yaml of a layer is (missing, unparseable, not of
\* the expected shape, or without an entry for a module), discover_modules on
\* an existing SQL root does not raise, returns one descriptor per SQL file,
\* and the descriptor of a file without usable metadata carries the defaults.
MetadataNeverAbortsDiscovery ==
    (DiscoverDone /\ fs.root_exists) =>
       /\ error = NoError
       /\ DictKeySet(modules) = TreeKeys(fs)
       /\ \A k \in TreeKeys(fs) : NoMetadataFor(fs, k[1], k[2]) =>
             DictGet(modules, k) = SQLModule(k[2], k[1], <<>>, "", TRUE, FALSE, <<>>)

----------------------------------------------------------------------------
(* The command line: __main__.py, main *)

Count(b, s, g) == [l \in LayerSet |-> CASE l = "bronze" -> b [] l = "silver" -> s [] OTHER -> g]

\* the trees main is run on: no SQL root, no SQL file, a module per layer, two
\* bronze modules that depend on each other, a bronze module that is
\* disabled, a bronze module with a declared source file
MainTrees ==
    {NoTree,
     Tree(Count(0, 0, 0), <<>>),
     Tree(Count(1, 1, 1), <<>>),
     Tree(Count(2, 0, 0), (<<"bronze", NamePool[1]>> :> [DefaultMeta EXCEPT !.depends_on = <<Dep("", NamePool[2])>>])
                          @@ (<<"bronze", NamePool[2]>> :> [DefaultMeta EXCEPT !.depends_on = <<Dep("", NamePool[1])>>])),
     Tree(Count(1, 1, 0), <<"bronze", NamePool[1]>> :> [DefaultMeta EXCEPT !.enabled = FALSE]),
     Tree(Count(1, 1, 0), <<"bronze", NamePool[1]>> :> [DefaultMeta EXCEPT !.source_files = <<SourcePool[1]>>])}

\* lines 27-33: click.Choice
Choices == {"all"} \cup LayerSet

\* what can be typed for LAYERS: the choices and a word that is none of them
ArgWords == Choices \cup {"invalid_layer"}

ArgLists == SeqsUpTo(ArgWords, MaxArgs)

\* the database file: there, missing at the default path, missing at the path given with --db-path
DbStates == {"present", "missing_default", "missing_option"}

InitMain ==
    /\ fs \in MainTrees
    /\ modules = <<>>
    /\ discovery_complete = FALSE
    /\ pc = "main"
    /\ call = NoCall
    /\ layers_left = <<>>
    /\ pending = <<>>
    /\ log = <<>>
    /\ console = <<>>
    /\ error = NoError
    /\ cli \in {[layers |-> args, db |-> "present", exit |-> <<>>] : args \in ArgLists}
    /\ epc = NoFetch

\* lines 27-44: click rejects the command line before main runs (exit code 2)
UsageError(args, db) ==
    \/ args = <<>>
    \/ \E i \in 1..Len(args) : args[i] \notin Choices
    \/ db = "missing_option"

MainExitCodeMutant(e) == 0

\* lines 141-145, and the normal end of main
MainExitCode(e) == IF e # NoError THEN 1 ELSE 0

RunAllMutant(args) == FALSE

\* line 122
RunAll(args) == "all" \in Range(args)

\* the layers main hands to execute_layer, directly (lines 129-131) or through execute_all (line 126)
MainLayers(args) == IF RunAll(args) THEN Layers ELSE args

\* main up to the first layer: lines 83-126
MainStart ==
    /\ pc = "main"
    /\ \E db \in DbStates, dry_run \in BOOLEAN, validate \in BOOLEAN :
         LET found == discover_modules(fs)
             exits(code, e, printed) ==
                 /\ pc' = "exited"
                 /\ cli' = [cli EXCEPT !.db = db, !.exit = <<code>>]
                 /\ error' = e
                 /\ console' = <<printed>>
                 /\ log' = IF e # NoError THEN <<Event("raise", "", <<>>)>> ELSE <<>>
                 /\ layers_left' = <<>>
         IN  /\ call' = Call("main", "", dry_run, validate)
             /\ IF UsageError(cli.layers, db)
                THEN /\ exits(2, NoError, Msg("Usage", <<>>, <<>>))
                     /\ UNCHANGED <<modules, discovery_complete>>
                ELSE IF db # "present"
                THEN /\ exits(1, NoError, Msg("Database not found", <<>>, <<>>))
                     /\ UNCHANGED <<modules, discovery_complete>>
                ELSE IF found.error # NoError
                THEN /\ exits(MainExitCode(found.error), found.error, Msg("Error: e", <<>>, <<>>))
                     /\ UNCHANGED <<modules, discovery_complete>>
                ELSE /\ modules' = CacheAfterDiscovery(modules, found.modules)
                     /\ discovery_complete' = TRUE
                     /\ IF found.modules = <<>>
                        THEN exits(0, NoError, Msg("No SQL modules found", <<>>, <<>>))
                        ELSE /\ pc' = "layer"
                             /\ layers_left' = MainLayers(cli.layers)
                             /\ cli' = [cli EXCEPT !.db = db]
                             /\ error' = NoError
                             /\ console' = <<>>
                             /\ log' = <<>>
    /\ pending' = <<>>
    /\ UNCHANGED <<fs, epc>>

\* lines 133-145: the success message, or the error message and sys.exit(1)
MainExit ==
    /\ pc = "idle"
    /\ pc' = "exited"
    /\ cli' = [cli EXCEPT !.exit = <<MainExitCode(error)>>]
    /\ console' = Append(console,
                         IF error # NoError THEN Msg("Error: e", <<>>, <<>>)
                         ELSE IF call.dry_run THEN Msg("SUCCESS: Dry-run completed successfully", <<>>, <<>>)
                         ELSE Msg("SUCCESS: All transformations completed successfully", <<>>, <<>>))
    /\ UNCHANGED <<fs, modules, discovery_complete, call, layers_left, pending, log, error, epc>>

NextMain ==
    \/ MainStart
    \/ EnterLayer
    \/ ExecModule
    \/ MainExit

SpecMain == InitMain /\ [][NextMain]_vars

\* the modules attempted and not executed
FailedModules ==
    {log[i].mods : i \in {i \in LogIdx : log[i].ev = "attempt"}}
    \ {log[i].mods : i \in {i \in LogIdx : log[i].ev = "execute"}}

\* C18: main exits with code 0 exactly when the command line is accepted, the
\* database file and the SQL root are there and nothing raised, every
\* requested layer with enabled modules having been previewed or executed;
\* it exits with a non-zero code after a module failure, an unknown layer
\* word, a missing SQL root or a missing database.
CliExitCodes ==
    pc = "exited" =>
       LET code == cli.exit[1]
           accepted == cli.layers # <<>> /\ \A i \in 1..Len(cli.layers) : cli.layers[i] \in Choices
           raised == \E i \in LogIdx : log[i].ev = "raise"
       IN  /\ code \in {0, 1, 2}
           /\ code = 0 <=> (accepted /\ cli.db = "present" /\ fs.root_exists /\ ~raised)
           /\ code = 0 =>
                 /\ error = NoError
                 /\ \A l \in Range(MainLayers(cli.layers)) : HasEnabled(l) =>
                       l \in LayersWith(IF call.dry_run THEN "preview" ELSE "execute")
           /\ FailedModules # {} => code # 0
           /\ error # NoError => code # 0

\* main exited with code 1 after the silver module failed, the bronze module executed
CliExitCodesWitness ==
    /\ pc = "exited"
    /\ cli.exit = <<1>>
    /\ error.msg.text = "Module execution failed"
    /\ error.msg.names[1] = "silver"
    /\ "bronze" \in LayersWith("execute")

----------------------------------------------------------------------------
(* What a failure tells the user *)

\* what the user is shown of a failed module: the two lines printed at lines
\* 309-310 and the message of the error raised at 311-312
FailureOutput == {console[i] : i \in {i \in 1..Len(console) : i > Len(console) - 2}} \cup {error.msg}

\* the modules of the failing layer executed before the failure
CompletedBefore ==
    Cardinality({i \in LogIdx : log[i].ev = "execute" /\ log[i].layer = log[Len(log)].layer})

\* C19: when a live run fails on a module, what the user is shown names the
\* failed module and gives the number of modules completed before it.
FailureNamesModuleAndCount ==
    error.msg.text = "Module execution failed" =>
       /\ \E line \in FailureOutput : line.names = KeysOf("attempt", log[Len(log)].layer)
                                                    [Len(KeysOf("attempt", log[Len(log)].layer))]
       /\ \E line \in FailureOutput : CompletedBefore \in Range(line.nums)

\* C20: the cycle error names the layer whose modules could not be ordered.
CycleErrorNamesLayer ==
    (error.type = "RuntimeError" /\ error.msg.text = "Circular dependency detected in modules") =>
       log[Len(log)].layer \in Range(error.msg.names)

----------------------------------------------------------------------------
(* The resolver on its own: _sort_by_dependencies(modules) for a mapping of *)
(* bronze modules, as the unit tests call it.                                *)

\* dependencies on nothing in the mapping: another layer, and a name no module has
OutsideDeps == {Dep("silver", NamePool[1]), Dep("", NamePool[5])}

\* the depends_on lists of a module of a mapping of n modules: none, one name
\* (bare, or the first one qualified), one name twice, two names, a
\* dependency outside the mapping alone or before a name
SortDeps(n) ==
    {<<>>}
    \cup {<<Dep("", NamePool[i])>> : i \in 1..n}
    \cup {<<Dep("bronze", NamePool[1])>>}
    \cup {<<Dep("", NamePool[i]), Dep("", NamePool[i])>> : i \in 1..n}
    \cup {<<Dep("", NamePool[ij[1]]), Dep("", NamePool[ij[2]])>> :
             ij \in {ij \in (1..n) \X (1..n) : ij[1] < ij[2]}}
    \cup {<<o>> : o \in OutsideDeps}
    \cup {<<Dep("silver", NamePool[1]), Dep("", NamePool[i])>> : i \in 1..n}

SortModule(i, depends_on) ==
    SQLModule(NamePool[i], "bronze", depends_on, "", TRUE, FALSE, <<>>)

\* the mapping of n bronze modules with the depends_on lists deps
SortInput(n, deps) == [i \in 1..n |-> Entry(<<"bronze", NamePool[i]>>, SortModule(i, deps[i]))]

InitSort ==
    /\ fs = NoTree
    /\ \E n \in 0..MaxSortModules : \E deps \in [1..n -> SortDeps(n)] :
          modules = SortInput(n, deps)
    /\ discovery_complete = FALSE
    /\ pc = "sort_input"
    /\ call = NoCall
    /\ layers_left = <<>>
    /\ pending = <<>>
    /\ log = <<>>
    /\ console = <<>>
    /\ error = NoError
    /\ cli = NoCli
    /\ epc = NoFetch

\* _sort_by_dependencies(modules): the list returned is kept in pending
CallSort ==
    /\ pc = "sort_input"
    /\ call' = Call("_sort_by_dependencies", "", FALSE, FALSE)
    /\ LET sorted == _sort_by_dependencies(modules)
       IN  /\ error' = sorted.error
           /\ pending' = sorted.value
    /\ pc' = "idle"
    /\ UNCHANGED <<fs, modules, discovery_complete, layers_left, log, console, cli, epc>>

NextSort == CallSort

SpecSort == InitSort /\ [][NextSort]_vars

SortDone == call.op = "_sort_by_dependencies" /\ pc = "idle"

\* the position of the qualified name k in the list returned
OutPos(k) == CHOOSE p \in 1..Len(pending) : get_qualified_name(pending[p]) = k

\* the dependencies of the module k that are keys of the mapping
InSetDeps(k) == DeclaredDeps(DictGet(modules, k)) \cap DictKeySet(modules)

\* some modules of the mapping each depend on one of them
InSetCycle ==
    \E S \in SUBSET DictKeySet(modules) :
       S # {} /\ \A k \in S : InSetDeps(k) \cap S # {}

\* C21: the resolver raises the cycle error exactly when the dependencies
\* among the modules of the mapping have a cycle; otherwise it raises nothing
\* and returns a list with every module of the mapping exactly once and
\* nothing else.
ResolverRaisesIffCycle ==
    SortDone =>
       /\ error \in {NoError, CircularError}
       /\ error = CircularError <=> InSetCycle
       /\ error = NoError =>
             /\ Len(pending) = Len(modules)
             /\ \A i \in 1..Len(modules) :
                   Cardinality({p \in 1..Len(pending) : pending[p] = modules[i].mod}) = 1

\* three modules were ordered, one of them with the same dependency twice
\* and one with a dependency on another layer
ResolverRaisesIffCycleWitness ==
    /\ SortDone
    /\ error = NoError
    /\ Len(pending) = 3
    /\ \E i \in 1..3 : /\ Len(pending[i].depends_on) = 2
                       /\ pending[i].depends_on[1] = pending[i].depends_on[2]
    /\ \E i \in 1..3 : \E j \in 1..Len(pending[i].depends_on) :
          pending[i].depends_on[j].layer = "silver"

\* the index of the qualified name k in the mapping
InPos(k) == PosIn(modules, k)

\* the position in the list returned at which the module k became ready: 0
\* when it depends on no module of the mapping, else that of the last of its
\* dependencies
ReadyAt(k) ==
    IF InSetDeps(k) = {} THEN 0
    ELSE CHOOSE p \in 1..Len(pending) :
            /\ get_qualified_name(pending[p]) \in InSetDeps(k)
            /\ \A dep \in InSetDeps(k) : OutPos(dep) <= p

\* C22: the list the resolver returns is the one order fixed by the insertion
\* order of the mapping: a module comes before another exactly when it became
\* ready earlier (the modules without dependencies in the mapping being ready
\* from the start), or at the same time and it was inserted first.
FirstReadyFirstOut ==
    (SortDone /\ error = NoError) =>
       \A k1, k2 \in DictKeySet(modules) :
          OutPos(k1) < OutPos(k2) <=>
             \/ ReadyAt(k1) < ReadyAt(k2)
             \/ ReadyAt(k1) = ReadyAt(k2) /\ InPos(k1) < InPos(k2)

\* of two modules with dependencies in the mapping, the one inserted later
\* became ready first and came out first
FirstReadyFirstOutWitness ==
    /\ SortDone
    /\ error = NoError
    /\ Len(pending) = 3
    /\ \E k1, k2 \in DictKeySet(modules) :
          /\ ReadyAt(k1) > 0
          /\ ReadyAt(k1) < ReadyAt(k2)
          /\ InPos(k2) < InPos(k1)
          /\ OutPos(k1) < OutPos(k2)

\* the module has a declared dependency that is no key of the mapping
HasOutsideDep(m) == \E dep \in DeclaredDeps(m) : dep \notin DictKeySet(modules)

\* the mapping with every dependency that is no key of it taken out of depends_on
WithoutOutsideDeps(d) ==
    [i \in 1..Len(d) |->
        Entry(d[i].key,
              [d[i].mod EXCEPT !.depends_on =
                  SelectSeq(d[i].mod.depends_on,
                            LAMBDA dep : Qualify(d[i].mod, dep) \in DictKeySet(d))])]

\* C23: a declared dependency that is no key of the mapping being resolved
\* changes nothing: the resolver raises or not, and orders the modules, as it
\* does for the mapping without that dependency, and a module all of whose
\* dependencies are outside the mapping is among the first of the list.
OutsideDepsIgnored ==
    SortDone =>
       LET plain == _sort_by_dependencies(WithoutOutsideDeps(modules))
       IN  /\ error = plain.error
           /\ QNames(pending) = QNames(plain.value)
           /\ error = NoError =>
                 \A k \in DictKeySet(modules) : InSetDeps(k) = {} =>
                    \A p \in 1..(OutPos(k) - 1) : InSetDeps(get_qualified_name(pending[p])) = {}

\* a module that depends on another layer and one that depends on a name no
\* module has were ordered first and second, before the module that depends
\* on them
OutsideDepsIgnoredWitness ==
    /\ SortDone
    /\ error = NoError
    /\ Len(pending) = 3
    /\ HasOutsideDep(pending[1])
    /\ HasOutsideDep(pending[2])
    /\ pending[1].depends_on # pending[2].depends_on
    /\ Cardinality(InSetDeps(get_qualified_name(pending[3]))) = 2

----------------------------------------------------------------------------
(* Order of resolution, validation and execution; connections *)

\* C24: in execute_layer the validator runs right after the modules were
\* ordered and before any of them is previewed or attempted; when a declared
\* source file is missing the call ends there with the validation error and
\* nothing of the layer is previewed, attempted or done to the database; when
\* the modules have a cycle the call ends with the cycle error and the
\* validator does not run, whatever is on disk.
ValidationAfterResolution ==
    /\ \A i \in LogIdx : log[i].ev = "validate" =>
          /\ i > 1
          /\ log[i - 1].ev = "sorted"
          /\ log[i - 1].layer = log[i].layer
          /\ log[i - 1].mods = log[i].mods
          /\ \A j \in 1..(i - 1) : log[j].layer = log[i].layer =>
                log[j].ev \in {"resolve", "sorted"}
    /\ error.msg.text = "source file(s) missing" =>
          /\ pc = "idle"
          /\ Len(log) >= 5
          /\ [j \in 1..3 |-> log[Len(log) - 3 + j].ev] = <<"validate", "disk", "raise">>
          /\ \A j \in LogIdx : log[j].layer = log[Len(log)].layer =>
                log[j].ev \notin DatabaseEvents \cup {"attempt", "preview"}
    /\ \A i \in LogIdx : (log[i].ev = "resolve" /\ HasCycle(Range(log[i].mods))) =>
          /\ log[i].layer \notin LayersWith("validate")
          /\ pc = "idle" => error = CircularError

\* with validate on, a bronze layer with a module that depends on itself and
\* a module that declares a source file ended with the cycle error
ValidationAfterResolutionWitness ==
    /\ call.validate
    /\ pc = "idle"
    /\ error = CircularError
    /\ log[Len(log)].layer = "bronze"
    /\ \E i \in 1..Len(modules) :
          modules[i].mod.layer = "bronze" /\ modules[i].mod.source_files # <<>>

\* connections open after the first i events of the log
OpenAt(i) ==
    Cardinality({j \in 1..i : log[j].ev = "connect"})
        - Cardinality({j \in 1..i : log[j].ev = "close"})

\* C25: in live mode every module runs on a connection of its own: the
\* connection is opened right after the module is attempted, the extensions
\* are loaded, the SQL is executed as one batch and the connection is closed,
\* also when loading or executing raises, before the next module is
\* attempted; at no point is more than one connection open.
OneConnectionPerModule ==
    /\ OpenAt(Len(log)) = 0
    /\ \A i \in LogIdx :
          /\ OpenAt(i) \in {0, 1}
          /\ log[i].ev = "attempt" =>
                /\ OpenAt(i) = 0
                /\ (i < Len(log) /\ log[i + 1].ev # "raise") =>
                      (log[i + 1].ev = "connect" /\ log[i + 1].mods = log[i].mods)
          /\ log[i].ev = "connect" =>
                /\ i > 1
                /\ log[i - 1].ev = "attempt"
                /\ log[i - 1].mods = log[i].mods
                /\ \E j \in (i + 1)..Len(log) :
                      /\ log[j].ev = "close"
                      /\ log[j].mods = log[i].mods
                      /\ [k \in 1..(j - i - 1) |-> log[i + k].ev]
                            \in {<<>>, <<"load", "execute">>, <<"load", "execute_error">>}
                      /\ \A k \in (i + 1)..(j - 1) : log[k].mods = log[i].mods
          /\ log[i].ev \in {"load", "execute", "execute_error"} => OpenAt(i) = 1

\* a second module was run on its own connection after the first one's was
\* closed, and its connection was closed although its SQL raised
OneConnectionPerModuleWitness ==
    \E i, j \in LogIdx :
       /\ i < j
       /\ j + 3 <= Len(log)
       /\ log[i].ev = "close"
       /\ log[j].ev = "connect"
       /\ log[j].mods # log[i].mods
       /\ log[j].layer = log[i].layer
       /\ log[j + 1].ev = "load"
       /\ log[j + 2].ev = "execute_error"
       /\ log[j + 3].ev = "close"

\* the modules of the same layer that module k declares and that are disabled
DisabledDeps(k) ==
    {dep \in DeclaredDeps(DictGet(modules, k)) \cap DictKeySet(modules) :
        dep[1] = k[1] /\ ~DictGet(modules, dep).enabled}

\* C26: the modules given to the resolver are the enabled modules of the
\* layer; a module whose dependency in the same layer is disabled is ordered
\* with the others as if that dependency were satisfied, and is executed in a
\* live run that does not fail; a disabled module is never ordered, previewed,
\* attempted or executed.
DisabledDependencySatisfied ==
    /\ \A i \in LogIdx : \A k \in Range(log[i].mods) :
          log[i].ev # "disk" => DictGet(modules, k).enabled
    /\ \A i \in LogIdx : log[i].ev = "resolve" =>
          /\ Range(log[i].mods) =
                {modules[m].key : m \in {n \in 1..Len(modules) :
                    modules[n].mod.layer = log[i].layer /\ modules[n].mod.enabled}}
          /\ ~HasCycle(Range(log[i].mods)) =>
                /\ i < Len(log)
                /\ log[i + 1].ev = "sorted"
                /\ Range(log[i + 1].mods) = Range(log[i].mods)
    /\ (pc = "idle" /\ error = NoError /\ call.op \in ExecuteOps /\ ~call.dry_run) =>
          \A i \in LogIdx : log[i].ev = "sorted" =>
             \A k \in Range(log[i].mods) :
                \E j \in (i + 1)..Len(log) : log[j].ev = "execute" /\ log[j].mods = <<k>>

\* a module was executed whose dependency in the same layer is disabled
DisabledDependencySatisfiedWitness ==
    \E i \in LogIdx :
       /\ log[i].ev = "execute"
       /\ DisabledDeps(log[i].mods[1]) # {}

\* every enabled module of a layer before layer has been handled by one of
\* the first i events of the log: executed, or previewed in a dry run
EarlierLayersDone(layer, i) ==
    \A m \in 1..Len(modules) :
       (modules[m].mod.enabled /\ LayerIdx(modules[m].mod.layer) < LayerIdx(layer)) =>
          \E j \in 1..i :
             IF call.dry_run
             THEN log[j].ev = "preview" /\ modules[m].key \in Range(log[j].mods)
             ELSE log[j].ev = "execute" /\ log[j].mods = <<modules[m].key>>

\* C27: in execute_all a layer's modules are resolved and its source files
\* validated only when the loop reaches the layer, after every enabled module
\* of the layers before it has been executed; a cycle in a later layer is
\* raised from that layer's own resolution, after the earlier layers ran.
ResolutionWhenReached ==
    call.op = "execute_all" =>
       /\ \A i \in LogIdx : log[i].ev \in {"resolve", "sorted", "validate"} =>
             EarlierLayersDone(log[i].layer, i)
       /\ error = CircularError =>
             /\ Len(log) >= 2
             /\ log[Len(log)].ev = "raise"
             /\ log[Len(log) - 1].ev = "resolve"
             /\ log[Len(log) - 1].layer = log[Len(log)].layer
             /\ HasCycle(Range(log[Len(log) - 1].mods))
             /\ EarlierLayersDone(log[Len(log)].layer, Len(log))

\* a live execute_all executed a bronze module and then raised the cycle
\* error of the silver layer
ResolutionWhenReachedWitness ==
    /\ call.op = "execute_all"
    /\ ~call.dry_run
    /\ error = CircularError
    /\ log[Len(log)].layer = "silver"
    /\ \E i \in LogIdx : log[i].ev = "execute" /\ log[i].layer = "bronze"

----------------------------------------------------------------------------
(* The layers main runs *)

IsSuffix(s, t) ==
    /\ Len(s) <= Len(t)
    /\ s = SubSeq(t, Len(t) - Len(s) + 1, Len(t))

Occurrences(s, x) == Cardinality({p \in 1..Len(s) : s[p] = x})

ResolveCount(layer) ==
    Cardinality({i \in LogIdx : log[i].ev = "resolve" /\ log[i].layer = layer})

\* the layers the command line asks for, in the order they are to run
Requested ==
    IF "all" \in Range(cli.layers) THEN Layers ELSE cli.layers

\* C28: main runs the layers named on the command line in the order they
\* were typed, each as often as it was typed, and stops at the first one that
\* fails; when "all" is one of the arguments the layers run once each in the
\* configured order, whatever else was typed.
CommandLineOrder ==
    call.op = "main" =>
       /\ IsSuffix(layers_left, Requested)
       /\ \A i, j \in LogIdx : (i < j /\ log[i].layer # "" /\ log[j].layer # "") =>
             \E p, q \in 1..Len(Requested) :
                p <= q /\ Requested[p] = log[i].layer /\ Requested[q] = log[j].layer
       /\ \A layer \in LayerSet : ResolveCount(layer) <= Occurrences(Requested, layer)
       /\ (pc = "exited" /\ cli.exit = <<0>> /\ modules # <<>>) =>
             \A layer \in LayerSet :
                HasEnabled(layer) => ResolveCount(layer) = Occurrences(Requested, layer)
       /\ (error # NoError /\ pc \in {"idle", "exited"}) =>
             /\ layers_left = <<>>
             /\ log[Len(log)].ev = "raise"
             /\ cli.exit \in {<<>>, <<1>>}

\* "silver bronze" was typed: a silver module was executed before a bronze one
CommandLineOrderWitness ==
    /\ cli.layers = <<"silver", "bronze">>
    /\ pc = "exited"
    /\ \E i, j \in LogIdx :
          /\ i < j
          /\ log[i].ev = "execute" /\ log[i].layer = "silver"
          /\ log[j].ev = "execute" /\ log[j].layer = "bronze"

----------------------------------------------------------------------------
(* Missing SQL file or database file *)

FileNotFoundCauses ==
    {SqlFileCause("sql_file_missing"), SqlFileCause("db_missing")}

\* C29: when the SQL file of a module or the database file does not exist,
\* the module's attempt ends before any connection is opened, so that no
\* database file is created, and the call raises that module's execution
\* failure.
NoConnectionWithoutFiles ==
    error.cause \in FileNotFoundCauses =>
       /\ pc = "idle"
       /\ Len(log) >= 2
       /\ log[Len(log)].ev = "raise"
       /\ log[Len(log) - 1].ev = "attempt"
       /\ error.type = "RuntimeError"
       /\ error.msg.text = "Module execution failed"
       /\ error.msg.names = log[Len(log) - 1].mods[1]
       /\ \A j \in LogIdx : log[j].ev \in DatabaseEvents =>
             log[j].mods # log[Len(log) - 1].mods
       /\ OpenAt(Len(log)) = 0
       /\ \E c \in 1..Len(console) :
             /\ console[c].text = "FAILED: qualified_name"
             /\ console[c].names = log[Len(log) - 1].mods[1]

\* the first module was executed and the SQL file of the second is missing
NoConnectionWithoutFilesWitness ==
    /\ error.cause = SqlFileCause("sql_file_missing")
    /\ Len(log) >= 3
    /\ log[Len(log) - 1].ev = "attempt"
    /\ log[Len(log) - 2].ev = "close"
    /\ log[Len(log) - 2].layer = log[Len(log) - 1].layer

----------------------------------------------------------------------------
(* EPCAPIClient._fetch_pages: epc_api_client.py *)

\* the cursors of the X-Next-Search-After header; "" is no header, or an empty one
Cursors == {"c1", "c2"}

\* what the server can answer: a CSV page with a header line and some records,
\* its last line ended by a newline or not, with or without a cursor; an error
\* status; no answer in time (status 0)
Response(status, records, terminated, next) ==
    [status |-> status, records |-> records, terminated |-> terminated, next |-> next]

Responses ==
    {Response(200, n, t, c) : n \in 0..MaxPageRecords, t \in BOOLEAN, c \in Cursors \cup {""}}
    \cup {Response(st, 0, TRUE, "") : st \in {0, 401, 429, 500}}

\* csv_text.count("\n") of a page
Newlines(page) == page.records + (IF page.terminated THEN 1 ELSE 0)

\* the limit is passed only when it is exceeded
LimitReachedMutant(total_rows, limit) == total_rows > limit

\* line 256
LimitReached(total_rows, limit) == total_rows >= limit

\* line 246
PageRows(page) == Newlines(page) - 1

\* the records DuckDB reads from the pages (lines 262-293)
RECURSIVE CombinedRecords(_)
CombinedRecords(csv_pages) ==
    IF csv_pages = <<>> THEN 0
    ELSE Head(csv_pages).records + CombinedRecords(Tail(csv_pages))

\* _paginate_requests calls _fetch_pages with no cursor and page_num 0 (lines 153-181)
InitFetch ==
    /\ fs = NoTree
    /\ modules = <<>>
    /\ discovery_complete = FALSE
    /\ pc = "fetch"
    /\ call = NoCall
    /\ layers_left = <<>>
    /\ pending = <<>>
    /\ log = <<>>
    /\ console = <<>>
    /\ error = NoError
    /\ cli = NoCli
    /\ \E limit \in 1..MaxLimit : epc = [NoFetch EXCEPT !.max_records_per_batch = limit]

\* one pass of the loop of lines 203-260, and lines 262-293 when it leaves the loop
FetchPage ==
    /\ pc = "fetch"
    /\ epc.page_num < MaxPages
    /\ \E first \in Responses, second \in Responses :
         LET page_num == epc.page_num + 1
             request  == [page_num |-> page_num, search_after |-> epc.search_after]
             retried  == first.status = 429
             response == IF retried THEN second ELSE first
             requests == epc.requests \o (IF retried THEN <<request, request>> ELSE <<request>>)
             raises(e) ==
                 /\ pc' = "fetch_raised"
                 /\ error' = e
                 /\ epc' = [epc EXCEPT !.page_num = page_num, !.requests = requests]
             csv_pages  == Append(epc.csv_pages, [records |-> response.records,
                                                  terminated |-> response.terminated])
             total_rows == epc.total_rows + PageRows(response)
             after      == [epc EXCEPT !.page_num = page_num,
                                       !.requests = requests,
                                       !.responses = Append(@, response),
                                       !.csv_pages = csv_pages,
                                       !.total_rows = total_rows,
                                       !.search_after = response.next]
         IN  /\ (~retried) => second = first
             /\ IF first.status = 0 \/ (retried /\ second.status = 0)
                THEN raises(Raise("httpx.TimeoutException", NoMsg, ""))
                ELSE IF first.status = 401
                THEN raises(Raise("ValueError",
                                  Msg("Invalid EPC API credentials (401 Unauthorized)", <<>>, <<>>), ""))
                ELSE IF response.status >= 400
                THEN raises(Raise("httpx.HTTPStatusError", NoMsg, ""))
                ELSE IF response.next = "" \/ LimitReached(total_rows, epc.max_records_per_batch)
                THEN /\ pc' = "fetch_returned"
                     /\ epc' = [after EXCEPT !.all_records = CombinedRecords(csv_pages)]
                     /\ error' = NoError
                ELSE /\ epc' = after
                     /\ UNCHANGED <<pc, error>>
    /\ UNCHANGED <<fs, modules, discovery_complete, call, layers_left, pending, log, console, cli>>

NextFetch == FetchPage

SpecFetch == InitFetch /\ [][NextFetch]_vars

\* the rows counted for the first k pages received
RECURSIVE RowsIn(_)
RowsIn(pages) == IF pages = <<>> THEN 0 ELSE PageRows(Head(pages)) + RowsIn(Tail(pages))

RowsAfter(k) == RowsIn(SubSeq(epc.responses, 1, k))

\* the search-after parameter of the requests for page k
SentFor(k) ==
    {epc.requests[i].search_after :
        i \in {j \in 1..Len(epc.requests) : epc.requests[j].page_num = k}}

\* C30: _fetch_pages asks for a further page only when the page before came
\* with a cursor and the rows counted so far are below max_records_per_batch,
\* and it sends that cursor as search-after; it returns after the first
\* page at which the count reaches the limit, also when that page came with a
\* cursor, so that the count passes the limit by less than the rows of the
\* last page.
FetchRespectsLimit ==
    pc \in {"fetch", "fetch_returned", "fetch_raised"} =>
       LET received == Len(epc.responses)
       IN  /\ epc.total_rows = RowsAfter(received)
           /\ SentFor(1) \subseteq {""}
           /\ \A k \in 2..epc.page_num :
                 /\ k - 1 <= received
                 /\ epc.responses[k - 1].next # ""
                 /\ SentFor(k) = {epc.responses[k - 1].next}
                 /\ RowsAfter(k - 1) < epc.max_records_per_batch
           /\ pc = "fetch" =>
                 /\ received = epc.page_num
                 /\ received > 0 =>
                       /\ epc.responses[received].next # ""
                       /\ epc.total_rows < epc.max_records_per_batch
           /\ pc = "fetch_returned" =>
                 /\ received = epc.page_num
                 /\ \/ epc.responses[received].next = ""
                    \/ /\ epc.total_rows >= epc.max_records_per_batch
                       /\ epc.total_rows - epc.max_records_per_batch
                             < PageRows(epc.responses[received])
                 /\ (\A k \in 1..received : epc.responses[k].terminated) =>
                       /\ epc.all_records = epc.total_rows
                       /\ epc.responses[received].next # "" =>
                             epc.all_records - epc.max_records_per_batch
                                < epc.responses[received].records

\* the limit is 3 and two pages of two records came, each with a cursor: the
\* fetch returned the four records after the second page
FetchRespectsLimitWitness ==
    /\ pc = "fetch_returned"
    /\ epc.max_records_per_batch = 3
    /\ epc.page_num = 2
    /\ epc.all_records = 4
    /\ epc.total_rows = 4
    /\ \A k \in 1..2 : epc.responses[k].next # ""
    /\ SentFor(2) = {epc.responses[1].next}

====
